---- MODULE Spec2Model ----
(***************************************************************************)
(* Model of the ledger component of study-support-bot                      *)
(* (src/sheets_handler.py): the spreadsheet is a sequence of rows, a row a *)
(* sequence of string cells as the Sheets API returns them.  Each handler  *)
(* call (get_total_points, record_action, get_user_history,                *)
(* initialize_sheet) is run by one of a few concurrent request processes,  *)
(* one step per Sheets-API call, so that the read and the append of        *)
(* record_action can interleave with other calls.  A process is idle       *)
(* between calls; the call that completed last is kept in done, with what  *)
(* it returned or raised.                                                  *)
(*                                                                         *)
(* The message handler of src/main.py (handle_message) runs on top of the  *)
(* same worksheet: one inbound event at a time, one step per call of the   *)
(* Sheets API or of the messaging API, after initialize_sheets_handler has *)
(* run at startup.  The milestone selection at the end of handle_message   *)
(* is a function of two totals and is also applied on its own to totals    *)
(* drawn from a range.                                                     *)
(***************************************************************************)
EXTENDS Integers, Sequences, FiniteSets, TLC

VARIABLES
    ledger,     \* the worksheet range A:E: a sequence of rows of string cells
    pc,         \* per process: position inside the handler call it runs
    call,       \* per process: the call it runs and its arguments
    local,      \* per process: current_total read by record_action
    io,         \* per process: outcomes of the Sheets-API calls of this call
    done,       \* the call that completed last: its arguments, API outcomes, result
    written,    \* history: the rows appended by record_action calls that returned True
    awarded,    \* history: per user, the points of those calls summed
    ledger0,    \* history: the worksheet content the run started from
    config,         \* main.py: is SPREADSHEET_ID set, does the credentials file exist
    started,        \* initialize_sheets_handler has run (the __main__ block)
    sheets_handler, \* main.py global: "None" or "SheetsHandler"
    hpc,            \* position of handle_message in the event it handles
    event,          \* the inbound event: user id and text
    frame,          \* locals of handle_message
    replies,        \* history: reply_message calls of this event, with their outcome
    pushes,         \* history: push_message calls of this event, with their outcome
    calls,          \* history: ledger calls of this event, with what they returned
    handled,        \* number of inbound events received
    selected,       \* two totals and the celebration selected for them
    point_rules,    \* PointSystem.point_rules: the rules, in insertion order
    applied,        \* history: the call of the rule set made last, and how many
                    \* of them changed it
    init_result,    \* what initialize_sheets_handler returned
    peer            \* a second handle_message running at the same time

sheetvars == <<ledger, pc, call, local, io, done, written, awarded, ledger0>>
botvars == <<config, started, sheets_handler, hpc, event, frame, replies, pushes,
             calls, handled>>
restvars == <<selected, point_rules, applied, init_result, peer>>
vars == <<sheetvars, botvars, restvars>>

----------------------------------------------------------------------------
(* Bounds of the model *)

MaxAppends == 2     \* record_action calls that may be started in one run
MaxLimit == 2       \* get_user_history is called with limit in 0..MaxLimit
MaxInt == 120       \* integer cells -MaxInt..MaxInt are the ones int() is tried on

Procs == 1..2       \* the concurrent request processes (interchangeable workers)
Users == {"u1", "u2"}
Limits == 0..MaxLimit
IntRange == (0 - MaxInt)..MaxInt

----------------------------------------------------------------------------
(* Cells.  record_action writes its int cells with valueInputOption RAW and *)
(* the API returns every cell as its formatted string, so an int n written  *)
(* is read back as its decimal string; int(cell) parses a decimal string    *)
(* and raises ValueError on anything else.                                  *)

Digit == <<"0", "1", "2", "3", "4", "5", "6", "7", "8", "9">>

RECURSIVE DecStr(_)
DecStr(n) ==
    IF n < 0 THEN "-" \o DecStr(0 - n)
    ELSE IF n < 10 THEN Digit[n + 1]
    ELSE DecStr(n \div 10) \o Digit[(n % 10) + 1]

DecTable == [n \in IntRange |-> DecStr(n)]

\* the cells int() succeeds on, each with the integer it gives
IntTable ==
    [c \in {DecTable[n] : n \in IntRange} |-> CHOOSE n \in IntRange : DecTable[n] = c]

\* int(cell) succeeds
IsIntCell(cell) == cell \in DOMAIN IntTable

\* int(cell), for a cell on which it succeeds
int(cell) == IntTable[cell]

\* headers of initialize_sheet: user id, timestamp, action, points, total
\* (the first cell stands for the user-id label the code compares with)
headers == <<"UserID", "Timestamp", "Action", "Points", "Total">>

\* the header of a worksheet of the legacy four-column layout
legacy_headers == <<"Timestamp", "Action", "Points", "Total">>

\* datetime.now().strftime(...): the time of the append, one opaque value
timestamp == "now"

----------------------------------------------------------------------------
(* get_total_points: the loop over values[1:] *)

\* one iteration: what the row adds to total_points
row_points(row, user_id) ==
    IF Len(row) >= 5 /\ row[1] = user_id
    THEN (IF IsIntCell(row[4]) THEN int(row[4]) ELSE 0)
    ELSE IF Len(row) >= 4
         THEN (IF IsIntCell(row[3]) THEN int(row[3]) ELSE 0)
         ELSE 0

RECURSIVE sum_rows(_, _)
sum_rows(rows, user_id) ==
    IF rows = <<>> THEN 0
    ELSE row_points(Head(rows), user_id) + sum_rows(Tail(rows), user_id)

\* the value get_total_points returns when the API call succeeded
total_points(values, user_id) ==
    IF values = <<>> THEN 0 ELSE sum_rows(Tail(values), user_id)

----------------------------------------------------------------------------
(* get_user_history: the loop over values[1:] and the final slice *)

\* the four cells history.append reads from a row, or <<>> when the row is
\* passed over
history_cells(row, user_id) ==
    IF Len(row) >= 5 /\ row[1] = user_id
    THEN <<row[2], row[3], row[4], row[5]>>
    ELSE IF Len(row) >= 4
         THEN <<row[1], row[2], row[3], row[4]>>
         ELSE <<>>

\* the iteration raises ValueError: int() of the points or the total cell
row_raises(row, user_id) ==
    LET c == history_cells(row, user_id)
    IN  c # <<>> /\ (~IsIntCell(c[3]) \/ ~IsIntCell(c[4]))

history_entry(c) ==
    [timestamp |-> c[1], action |-> c[2], points |-> int(c[3]), total |-> int(c[4])]

RECURSIVE history_list(_, _)
history_list(rows, user_id) ==
    IF rows = <<>> THEN <<>>
    ELSE LET c == history_cells(Head(rows), user_id)
             rest == history_list(Tail(rows), user_id)
         IN  IF c = <<>> THEN rest ELSE <<history_entry(c)>> \o rest

\* Python's s[start:] for a start of either sign
slice_from(s, start) ==
    LET n == Len(s)
        lo == IF start < 0
              THEN (IF n + start < 0 THEN 0 ELSE n + start)
              ELSE (IF start > n THEN n ELSE start)
    IN  SubSeq(s, lo + 1, n)

\* history[-limit:]
last_entries(history, limit) == slice_from(history, 0 - limit)

Returned(v) == [exc |-> "none", val |-> v]
Raised(e) == [exc |-> e, val |-> 0]

\* what get_user_history returns or raises when the API call succeeded
user_history(values, user_id, limit) ==
    IF values = <<>> THEN Returned(<<>>)
    ELSE IF \E i \in 2..Len(values) : row_raises(values[i], user_id)
         THEN Raised("ValueError")
         ELSE Returned(last_entries(history_list(Tail(values), user_id), limit))

----------------------------------------------------------------------------
(* The Sheets API.  execute() of a request either succeeds, raises HttpError *)
(* (the server answered with an error status: quota exceeded, permission    *)
(* denied, ...) or raises another exception (socket timeout, server not     *)
(* found, token refresh failure).  A failed request leaves the sheet as it  *)
(* was.                                                                     *)

Outcomes == {"ok", "HttpError", "OtherError"}

\* values().append(range A:E, INSERT_ROWS): one row after the last row
append_row(values, row) == Append(values, row)

\* update_header writing its row after the last row, as an append does
update_header_appended(values) == Append(values, headers)

\* update_header clearing the sheet before it writes
update_header_sheet_cleared(values) == <<headers>>

\* values().update(range A:E or A1, values [headers]): row 1 is written
update_header(values) ==
    IF values = <<>> THEN <<headers>> ELSE [values EXCEPT ![1] = headers]

----------------------------------------------------------------------------
(* What each handler returns or raises, given the outcome of its API call *)

\* get_total_points: except HttpError returns 0, anything else propagates
get_total_points_result(values, user_id, o) ==
    CASE o = "ok" -> Returned(total_points(values, user_id))
      [] o = "HttpError" -> Returned(0)
      [] OTHER -> Raised(o)

\* get_user_history: except HttpError returns [], anything else propagates
get_user_history_result(values, user_id, limit, o) ==
    CASE o = "ok" -> user_history(values, user_id, limit)
      [] o = "HttpError" -> Returned(<<>>)
      [] OTHER -> Raised(o)

\* row_data with new_total taken to be points alone, the total read left out
row_data_total_dropped(user_id, action, points, current_total) ==
    <<user_id, timestamp, action, DecStr(points), DecStr(points)>>

\* row_data of record_action, as the cells are read back
row_data(user_id, action, points, current_total) ==
    <<user_id, timestamp, action, DecStr(points), DecStr(current_total + points)>>

\* initialize_sheet writes the header: the sheet is empty, or its first row
\* is not the five-column header
header_needed(values) ==
    IF values = <<>> THEN TRUE
    ELSE Len(values[1]) < 5 \/ values[1][1] # headers[1]

----------------------------------------------------------------------------
(* The inputs *)

\* rules the rule set can hold (add_point_rule takes any description): the
\* description is the action cell of the row, points its points cell
RuleSamples ==
    { [description |-> "homework", points |-> 1],
      [description |-> "7", points |-> 5] }

\* worksheets a run can start from: never used, initialized, a legacy
\* worksheet with one legacy row, and a worksheet holding hand-edited rows
\* (a non-integer points cell, a short row)
InitLedgers ==
    { <<>>,
      <<headers>>,
      <<legacy_headers, <<"t0", "homework", "1", "1">>>>,
      <<headers, <<"u1", "t0", "homework", "x", "1">>, <<"u1", "t0">>,
        <<"u1", "t0", "trash", "5", "5">>>> }

NoCall == [op |-> "none", user_id |-> "", action |-> "", points |-> 0, limit |-> 0]

\* the record kept of a completed call
Completed(c, outcomes, r) ==
    [call |-> c, io |-> outcomes, ret |-> r]

\* no handler call is running, none has completed
SheetIdle ==
    /\ ledger0 = ledger
    /\ pc = [p \in Procs |-> "idle"]
    /\ call = [p \in Procs |-> NoCall]
    /\ local = [p \in Procs |-> 0]
    /\ io = [p \in Procs |-> <<>>]
    /\ done = Completed(NoCall, <<>>, Returned(0))
    /\ written = <<>>
    /\ awarded = [u \in Users |-> 0]

NoEvent == [user_id |-> "", text |-> <<>>]

\* the locals of handle_message; parsed tells whether parse_message was
\* called, error is the exception the outer except caught
NoFrame ==
    [parsed |-> FALSE, matches |-> <<>>, i |-> 0, action_description |-> "",
     read_total |-> 0, total_points_earned |-> 0, recorded_actions |-> <<>>,
     current_total |-> 0, response_message |-> "", error |-> "none"]

NoSelection == [previous_total |-> 0, current_total |-> 0, message |-> "none"]

\* no event has been received
BotIdle ==
    /\ started = FALSE
    /\ sheets_handler = "None"
    /\ hpc = "idle"
    /\ event = NoEvent
    /\ frame = NoFrame
    /\ replies = <<>>
    /\ pushes = <<>>
    /\ calls = <<>>
    /\ handled = 0

\* no call of the rule set was made
NoApplied ==
    [n |-> 0, op |-> "none", keyword |-> <<>>, rule |-> <<>>, text |-> <<>>,
     before |-> <<>>, ret |-> <<>>]

\* no second handle_message runs
NoPeer == [hpc |-> "idle", user_id |-> "", points |-> 0, action_description |-> "",
           read_total |-> 0, current_total |-> 0, pushed |-> 0]

\* the rule set is not called and there is one handle_message at a time
RulesIdle(rules) ==
    /\ point_rules = rules
    /\ applied = NoApplied
    /\ init_result = "not_run"
    /\ peer = NoPeer

\* the handler calls on their own, made on a SheetsHandler object of a
\* configured spreadsheet; the message handler of main.py is not started
Init ==
    /\ ledger \in InitLedgers
    /\ SheetIdle
    /\ config = [spreadsheet_id |-> TRUE, credentials_file |-> TRUE]
    /\ BotIdle
    /\ selected = NoSelection
    /\ RulesIdle(<<>>)

\* process p takes the next call: the processes are interchangeable, and the
\* idle one of least index is the one that takes it
Free(p) ==
    /\ pc[p] = "idle"
    /\ \A q \in Procs : q < p => pc[q] # "idle"

\* process p goes back to idle as its call completes
Finish(p) ==
    /\ pc' = [pc EXCEPT ![p] = "idle"]
    /\ call' = [call EXCEPT ![p] = NoCall]
    /\ local' = [local EXCEPT ![p] = 0]
    /\ io' = [io EXCEPT ![p] = <<>>]

----------------------------------------------------------------------------
(* The handler calls *)

\* SheetsHandler.get_total_points(user_id): one values().get
get_total_points(p, user_id, o) ==
    /\ Free(p)
    /\ done' = Completed([NoCall EXCEPT !.op = "get_total_points", !.user_id = user_id],
                         <<o>>, get_total_points_result(ledger, user_id, o))
    /\ UNCHANGED <<ledger, pc, call, local, io, written, awarded, ledger0>>
    /\ UNCHANGED <<botvars, restvars>>

\* SheetsHandler.get_user_history(user_id, limit): one values().get
get_user_history(p, user_id, limit, o) ==
    /\ Free(p)
    /\ done' = Completed([NoCall EXCEPT !.op = "get_user_history", !.user_id = user_id,
                                        !.limit = limit],
                         <<o>>, get_user_history_result(ledger, user_id, limit, o))
    /\ UNCHANGED <<ledger, pc, call, local, io, written, awarded, ledger0>>
    /\ UNCHANGED <<botvars, restvars>>

\* SheetsHandler.record_action, first API call: current_total =
\* self.get_total_points(user_id)
record_action_read(p, user_id, rule, o) ==
    /\ Free(p)
    /\ Len(written) + Cardinality({q \in Procs : pc[q] = "rec_append"}) < MaxAppends
    /\ LET c == [NoCall EXCEPT !.op = "record_action", !.user_id = user_id,
                               !.action = rule.description, !.points = rule.points]
           r == get_total_points_result(ledger, user_id, o)
       IN  IF r.exc = "none"
           THEN /\ pc' = [pc EXCEPT ![p] = "rec_append"]
                /\ call' = [call EXCEPT ![p] = c]
                /\ local' = [local EXCEPT ![p] = r.val]
                /\ io' = [io EXCEPT ![p] = <<o>>]
                /\ UNCHANGED done
           ELSE /\ done' = Completed(c, <<o>>, r)
                /\ UNCHANGED <<pc, call, local, io>>
    /\ UNCHANGED <<ledger, written, awarded, ledger0>>
    /\ UNCHANGED <<botvars, restvars>>

\* SheetsHandler.record_action, second API call: values().append of row_data
record_action_append(p, o) ==
    /\ pc[p] = "rec_append"
    /\ Finish(p)
    /\ LET row == row_data(call[p].user_id, call[p].action, call[p].points, local[p])
       IN  CASE o = "ok" ->
                 /\ ledger' = append_row(ledger, row)
                 /\ written' = Append(written, row)
                 /\ awarded' = [awarded EXCEPT ![call[p].user_id] = @ + call[p].points]
                 /\ done' = Completed(call[p], Append(io[p], o), Returned(TRUE))
             [] o = "HttpError" ->
                 /\ done' = Completed(call[p], Append(io[p], o), Returned(FALSE))
                 /\ UNCHANGED <<ledger, written, awarded>>
             [] OTHER ->
                 /\ done' = Completed(call[p], Append(io[p], o), Raised(o))
                 /\ UNCHANGED <<ledger, written, awarded>>
    /\ UNCHANGED ledger0
    /\ UNCHANGED <<botvars, restvars>>

\* SheetsHandler.initialize_sheet, first API call: values().get and the
\* check of the existing header
initialize_sheet_read(p, o) ==
    /\ Free(p)
    /\ LET c == [NoCall EXCEPT !.op = "initialize_sheet"]
       IN  CASE o = "ok" /\ header_needed(ledger) ->
                 /\ pc' = [pc EXCEPT ![p] = "init_write"]
                 /\ call' = [call EXCEPT ![p] = c]
                 /\ io' = [io EXCEPT ![p] = <<o>>]
                 /\ UNCHANGED <<local, done>>
             [] o = "ok" /\ ~header_needed(ledger) ->
                 /\ done' = Completed(c, <<o>>, Returned(TRUE))
                 /\ UNCHANGED <<pc, call, local, io>>
             [] o = "HttpError" ->
                 /\ done' = Completed(c, <<o>>, Returned(FALSE))
                 /\ UNCHANGED <<pc, call, local, io>>
             [] OTHER ->
                 /\ done' = Completed(c, <<o>>, Raised(o))
                 /\ UNCHANGED <<pc, call, local, io>>
    /\ UNCHANGED <<ledger, written, awarded, ledger0>>
    /\ UNCHANGED <<botvars, restvars>>

\* SheetsHandler.initialize_sheet, second API call: values().update
initialize_sheet_write(p, o) ==
    /\ pc[p] = "init_write"
    /\ Finish(p)
    /\ CASE o = "ok" ->
              /\ ledger' = update_header(ledger)
              /\ done' = Completed(call[p], Append(io[p], o), Returned(TRUE))
         [] o = "HttpError" ->
              /\ done' = Completed(call[p], Append(io[p], o), Returned(FALSE))
              /\ UNCHANGED ledger
         [] OTHER ->
              /\ done' = Completed(call[p], Append(io[p], o), Raised(o))
              /\ UNCHANGED ledger
    /\ UNCHANGED <<written, awarded, ledger0>>
    /\ UNCHANGED <<botvars, restvars>>

Next ==
    \E p \in Procs :
        \/ \E u \in Users, o \in Outcomes : get_total_points(p, u, o)
        \/ \E u \in Users, n \in Limits, o \in Outcomes : get_user_history(p, u, n, o)
        \/ \E u \in Users, r \in RuleSamples, o \in Outcomes : record_action_read(p, u, r, o)
        \/ \E o \in Outcomes : record_action_append(p, o)
        \/ \E o \in Outcomes : initialize_sheet_read(p, o)
        \/ \E o \in Outcomes : initialize_sheet_write(p, o)

Spec == Init /\ [][Next]_vars

\* the calls that write, alone: record_action and initialize_sheet
NextWrites ==
    \E p \in Procs :
        \/ \E u \in Users, r \in RuleSamples, o \in Outcomes : record_action_read(p, u, r, o)
        \/ \E o \in Outcomes : record_action_append(p, o)
        \/ \E o \in Outcomes : initialize_sheet_read(p, o)
        \/ \E o \in Outcomes : initialize_sheet_write(p, o)

SpecWrites == Init /\ [][NextWrites]_vars

----------------------------------------------------------------------------
(* src/main.py and src/point_system.py: what handle_message computes with *)

MaxEvents == 2      \* inbound events received in one run
MaxBoundary == 7    \* totals given to the milestone selection are below
                    \* (MaxBoundary + 1) * 100

\* Config.DEFAULT_HISTORY_LIMIT
DEFAULT_HISTORY_LIMIT == 10

MaxRuleOps == 2     \* calls of add_point_rule and remove_point_rule in one run
MaxBotRuleOps == 1  \* those of them made while the application handles events
MaxTextLen == 3     \* characters of a text given to parse_message on its own

\* A text is the sequence of its characters; a character that is no ASCII
\* character is written by its reading.

\* str.lower(): the upper-case letters of the texts below (every other
\* character of theirs is left as it is)
lower_table == [c \in {"A", "H", "P"} |-> CASE c = "A" -> "a" [] c = "H" -> "h" [] c = "P" -> "p"]

lower(text) ==
    [i \in DOMAIN text |-> IF text[i] \in DOMAIN lower_table THEN lower_table[text[i]] ELSE text[i]]

\* `keyword in message` of two strings
contains(keyword, message) ==
    \E i \in 0..(Len(message) - Len(keyword)) :
        SubSeq(message, i + 1, i + Len(keyword)) = keyword

\* the characters of a text as one string
RECURSIVE join(_)
join(text) == IF text = <<>> THEN "" ELSE Head(text) \o join(Tail(text))

\* the literals of the three commands
help_commands ==
    { <<"#", "h", "e", "l", "p">>, <<"#", "he", "ru", "pu">>,
      <<"h", "e", "l", "p">>, <<"he", "ru", "pu">> }

point_commands ==
    { <<"#", "po", "i_", "n_", "to">>, <<"#", "p", "o", "i", "n", "t">>,
      <<"po", "i_", "n_", "to">>, <<"p", "o", "i", "n", "t">> }

history_commands ==
    { <<"#", "ri", "reki">>, <<"#", "h", "i", "s", "t", "o", "r", "y">>,
      <<"ri", "reki">>, <<"h", "i", "s", "t", "o", "r", "y">> }

\* the command tests made on the text as it was sent
command_of_unfolded(message_text) ==
    IF message_text \in help_commands THEN "help"
    ELSE IF message_text \in point_commands THEN "point"
    ELSE IF message_text \in history_commands THEN "history"
    ELSE "none"

\* the three `message_text.lower() in [...]` tests, in their order
command_of(message_text) ==
    IF lower(message_text) \in help_commands THEN "help"
    ELSE IF lower(message_text) \in point_commands THEN "point"
    ELSE IF lower(message_text) \in history_commands THEN "history"
    ELSE "none"

\* a rule of the rule set under its keyword; the message is a template, the
\* pieces of it around the placeholder {points}
PointRule(keyword, points, message, description) ==
    [keyword |-> keyword, points |-> points, message |-> message,
     description |-> description]

\* Config.DEFAULT_POINT_RULES, in the order of the dict
DEFAULT_POINT_RULES ==
    << PointRule(<<"#", "shuku", "dai">>, 1, <<"homework +", "{points}", "pt">>, "homework"),
       PointRule(<<"#", "su", "ta", "su", "ta">>, 3, <<"study +", "{points}", "pt">>, "study"),
       PointRule(<<"#", "go", "mi", "su", "te">>, 5, <<"trash +", "{points}", "pt">>, "trash") >>

\* the keywords of a rule set
Keywords(rules) == {rules[i].keyword : i \in DOMAIN rules}

\* rule['message'].format(points=points)
RECURSIVE format(_, _)
format(message, points) ==
    IF message = <<>> THEN ""
    ELSE (IF Head(message) = "{points}" THEN DecStr(points) ELSE Head(message))
             \o format(Tail(message), points)

\* the match parse_message makes of a rule
Match(rule) ==
    [keyword |-> rule.keyword, points |-> rule.points,
     message |-> format(rule.message, rule.points)]

Matches(rules) == [i \in DOMAIN rules |-> Match(rules[i])]

\* parse_message testing the lowercased keyword on the lowercased text
parse_message_folded(rules, message) ==
    LET matched(rule) == contains(lower(rule.keyword), lower(message))
    IN  Matches(SelectSeq(rules, matched))

\* PointSystem.parse_message: the rules in the order of the dict, one match
\* per rule whose keyword is in the text
parse_message(rules, message) ==
    LET matched(rule) == contains(rule.keyword, message)
    IN  Matches(SelectSeq(rules, matched))

\* PointSystem.get_point_rule: dict.get, the rule in a list of one, the
\* empty list for None
get_point_rule(rules, keyword) ==
    LET under(rule) == rule.keyword = keyword
    IN  SelectSeq(rules, under)

\* PointSystem.add_point_rule: the dict assignment, which keeps the place of
\* a key that is there and puts a new key last
add_point_rule(rules, keyword, points, message, description) ==
    IF keyword \in Keywords(rules)
    THEN [i \in DOMAIN rules |->
             IF rules[i].keyword = keyword
             THEN PointRule(keyword, points, message, description)
             ELSE rules[i]]
    ELSE Append(rules, PointRule(keyword, points, message, description))

\* remove_point_rule returning True whatever the keyword
remove_point_rule_true(rules, keyword) ==
    LET others(rule) == rule.keyword # keyword
    IN  [rules |-> SelectSeq(rules, others), ret |-> TRUE]

\* PointSystem.remove_point_rule: the rule set it leaves, what it returns
remove_point_rule(rules, keyword) ==
    LET others(rule) == rule.keyword # keyword
    IN  [rules |-> SelectSeq(rules, others), ret |-> keyword \in Keywords(rules)]

\* the lines of get_help_message, one per rule
RECURSIVE help_lines(_)
help_lines(rules) ==
    IF rules = <<>> THEN ""
    ELSE "- " \o join(Head(rules).keyword) \o " -> " \o DecStr(Head(rules).points)
             \o "pt ("
             \o (IF Head(rules).description # "" THEN Head(rules).description
                 ELSE join(Head(rules).keyword))
             \o ")/" \o help_lines(Tail(rules))

\* PointSystem.get_help_message
get_help_message(rules) ==
    IF rules = <<>> THEN "no rules"
    ELSE "rules:/" \o help_lines(rules) \o "/send a message with a keyword"

\* the no-match reply without the help text
no_match_response_bare(rules) == "no match"

\* the reply to a text no rule matches
no_match_response(rules) == "no match//" \o get_help_message(rules)

\* Config.CELEBRATION_MESSAGES: per milestone, its three messages (each names
\* its milestone)
CELEBRATION_MESSAGES ==
    [pt \in {100, 200, 300, 400, 500} |->
        {DecStr(pt) \o "pt " \o v : v \in {"a", "b", "c"}}]

\* celebration_set falling back to the first set of the table
celebration_set_first(celebrate_pt) ==
    IF celebrate_pt \in DOMAIN CELEBRATION_MESSAGES
    THEN CELEBRATION_MESSAGES[celebrate_pt]
    ELSE CELEBRATION_MESSAGES[100]

\* the list random.choice draws from
celebration_set(celebrate_pt) ==
    IF celebrate_pt \in DOMAIN CELEBRATION_MESSAGES
    THEN CELEBRATION_MESSAGES[celebrate_pt]
    ELSE CELEBRATION_MESSAGES[500]

\* select_celebration announcing the first boundary above the previous total
select_celebration_first_crossed(previous_total, current_total) ==
    LET prev_celebrate == previous_total \div 100
        curr_celebrate == current_total \div 100
    IN  IF curr_celebrate > prev_celebrate /\ curr_celebrate >= 1
        THEN celebration_set((prev_celebrate + 1) * 100)
        ELSE {}

\* select_celebration without the comparison with the previous total
select_celebration_any_total(previous_total, current_total) ==
    LET prev_celebrate == previous_total \div 100
        curr_celebrate == current_total \div 100
    IN  IF curr_celebrate >= 1
        THEN celebration_set(curr_celebrate * 100)
        ELSE {}

\* the milestone check of handle_message: the messages random.choice can
\* give, none when no push is made
select_celebration(previous_total, current_total) ==
    LET prev_celebrate == previous_total \div 100
        curr_celebrate == current_total \div 100
    IN  IF curr_celebrate > prev_celebrate /\ curr_celebrate >= 1
        THEN celebration_set(curr_celebrate * 100)
        ELSE {}

\* `if sheets_handler:` taken to hold always
ledger_available_always(handler) == TRUE

\* `if sheets_handler:`
ledger_available(handler) == handler # "None"

\* the reply text of the record path
record_response(total_points_earned) ==
    IF total_points_earned > 0 THEN "recorded" ELSE "record_failed"

\* a failed push handled as the failures of the rest of the handler are
after_push_reported(outcome) == IF outcome = "ok" THEN "idle" ELSE "except"

\* where handle_message goes after push_message: its exception is caught and
\* logged on the spot
after_push(outcome) == "idle"

\* an exception leaving handle_message with no handler around its body
on_exception_unhandled(exc) == "idle"

\* where an exception raised in the body of handle_message lands: the outer
\* `except Exception`, whatever the exception
on_exception(exc) == "except"

\* reply_message and push_message succeed or raise (LineBotApiError, or a
\* failure of the HTTP request)
LineOutcomes == {"ok", "LineBotApiError"}

\* SheetsHandler(...) authenticates, builds the service, or raises
CtorOutcomes == {"ok", "OtherError"}

\* initialize_sheet as one call: the sheet it leaves, what it returns
initialize_sheet_call(values, o_read, o_write) ==
    CASE o_read = "ok" /\ ~header_needed(values) ->
             [ledger |-> values, ret |-> Returned(TRUE)]
      [] o_read = "ok" /\ header_needed(values) /\ o_write = "ok" ->
             [ledger |-> update_header(values), ret |-> Returned(TRUE)]
      [] o_read = "ok" /\ header_needed(values) /\ o_write = "HttpError" ->
             [ledger |-> values, ret |-> Returned(FALSE)]
      [] o_read = "ok" /\ header_needed(values) /\ o_write = "OtherError" ->
             [ledger |-> values, ret |-> Raised(o_write)]
      [] o_read = "HttpError" ->
             [ledger |-> values, ret |-> Returned(FALSE)]
      [] OTHER ->
             [ledger |-> values, ret |-> Raised(o_read)]

\* worksheets the application can be started on: never used, and one where
\* u1 holds 97 points (a rule added for 97 points was recorded)
BotLedgers ==
    { <<>>,
      <<headers, <<"u1", "t0", "bonus", "97", "97">>>> }

\* the totals the milestone selection is applied to
TotalSamples ==
    {b * 100 + r : b \in (0 - 1)..MaxBoundary, r \in {0, 1, 5, 50, 95, 99}}

\* the texts received: a command, a command in upper case, a command a
\* keyword that can be added is in, no keyword, a keyword inside a longer
\* text, two keywords, the keyword that can be added
BotTexts ==
    { <<"#", "h", "e", "l", "p">>,
      <<"P", "o", "i", "n", "t">>,
      <<"#", "p", "o", "i", "n", "t">>,
      <<"#", "ri", "reki">>,
      <<"x">>,
      <<"x", "#", "shuku", "dai">>,
      <<"#", "shuku", "dai", "#", "go", "mi", "su", "te">>,
      <<"p", "o", "i", "n", "t", "!">> }

\* the record of a ledger call handle_message made
LedgerCall(op, points, r, row) == [op |-> op, points |-> points, ret |-> r, row |-> row]

InitBot ==
    /\ ledger \in BotLedgers
    /\ SheetIdle
    /\ config \in [spreadsheet_id : BOOLEAN, credentials_file : BOOLEAN]
    /\ BotIdle
    /\ selected = NoSelection
    /\ RulesIdle(DEFAULT_POINT_RULES)

\* the application after add_point_rule('point', 5, ...): a keyword that is
\* inside a command literal
InitBotAdded ==
    /\ ledger \in BotLedgers
    /\ SheetIdle
    /\ config \in [spreadsheet_id : BOOLEAN, credentials_file : BOOLEAN]
    /\ BotIdle
    /\ selected = NoSelection
    /\ RulesIdle(add_point_rule(DEFAULT_POINT_RULES, <<"p", "o", "i", "n", "t">>, 5,
                                <<"bonus +", "{points}", "pt">>, "bonus"))

InitCelebrate ==
    /\ ledger = <<>>
    /\ SheetIdle
    /\ config = [spreadsheet_id |-> FALSE, credentials_file |-> FALSE]
    /\ BotIdle
    /\ selected \in [previous_total : TotalSamples, current_total : TotalSamples,
                     message : {"pending"}]
    /\ RulesIdle(<<>>)

----------------------------------------------------------------------------
(* initialize_sheets_handler and handle_message *)

\* initialize_sheets_handler(): the handler is assigned as soon as it is
\* constructed, before initialize_sheet() and the connection test (a read of
\* A1, which changes nothing); what these return decides only the result
initialize_sheets_handler(o_ctor, o_read, o_write, o_test) ==
    /\ ~started
    /\ started' = TRUE
    /\ IF config.spreadsheet_id /\ config.credentials_file /\ o_ctor = "ok"
       THEN LET r == initialize_sheet_call(ledger, o_read, o_write)
            IN  /\ sheets_handler' = "SheetsHandler"
                /\ ledger' = r.ledger
                /\ init_result' = IF r.ret = Returned(TRUE) /\ o_test = "ok"
                                  THEN "True" ELSE "False"
       ELSE /\ init_result' = "False"
            /\ UNCHANGED <<sheets_handler, ledger>>
    /\ UNCHANGED <<pc, call, local, io, done, written, awarded, ledger0>>
    /\ UNCHANGED <<config, hpc, event, frame, replies, pushes, calls, handled>>
    /\ UNCHANGED <<selected, point_rules, applied, peer>>

\* handle_message(event) up to its first call of an API: the command
\* literals, parse_message, the no-match and the handler-missing replies
handle_message(user_id, text) ==
    /\ started /\ hpc = "idle" /\ handled < MaxEvents
    /\ handled' = handled + 1
    /\ event' = [user_id |-> user_id, text |-> text]
    /\ replies' = <<>>
    /\ pushes' = <<>>
    /\ calls' = <<>>
    /\ LET matches == parse_message(point_rules, text)
           Parsed == [NoFrame EXCEPT !.parsed = TRUE, !.matches = matches]
           Goto(position, f) == hpc' = position /\ frame' = f
           Answer(m) == Goto("reply", [NoFrame EXCEPT !.response_message = m])
       IN  CASE command_of(text) = "help" -> Answer(get_help_message(point_rules))
             [] command_of(text) = "point" ->
                    IF ledger_available(sheets_handler)
                    THEN Goto("point", NoFrame) ELSE Answer("unavailable")
             [] command_of(text) = "history" ->
                    IF ledger_available(sheets_handler)
                    THEN Goto("history", NoFrame) ELSE Answer("unavailable")
             [] OTHER ->
                    IF matches = <<>>
                    THEN Goto("reply", [Parsed EXCEPT !.response_message =
                                            no_match_response(point_rules)])
                    ELSE IF ~ledger_available(sheets_handler)
                         THEN Goto("reply", [Parsed EXCEPT !.response_message =
                                                 "not_configured"])
                         ELSE Goto("rec_read", [Parsed EXCEPT !.i = 1])
    /\ UNCHANGED <<sheetvars, config, started, sheets_handler, restvars>>

\* the points command: sheets_handler.get_total_points(user_id)
handle_point(o) ==
    /\ hpc = "point"
    /\ LET r == get_total_points_result(ledger, event.user_id, o)
       IN  /\ calls' = Append(calls, LedgerCall("get_total_points", 0, r, <<>>))
           /\ IF r.exc = "none"
              THEN /\ frame' = [frame EXCEPT !.current_total = r.val,
                                             !.response_message = "total"]
                   /\ hpc' = "reply"
              ELSE /\ hpc' = on_exception(r.exc)
                   /\ frame' = [frame EXCEPT !.error = r.exc]
    /\ UNCHANGED <<sheetvars, config, started, sheets_handler, event, replies, pushes,
                   handled, restvars>>

\* the history command: sheets_handler.get_user_history(user_id, limit)
handle_history(o) ==
    /\ hpc = "history"
    /\ LET r == get_user_history_result(ledger, event.user_id, DEFAULT_HISTORY_LIMIT, o)
       IN  /\ calls' = Append(calls, LedgerCall("get_user_history", 0, r, <<>>))
           /\ IF r.exc = "none"
              THEN /\ frame' = [frame EXCEPT !.response_message =
                                    IF r.val # <<>> THEN "history" ELSE "no_history"]
                   /\ hpc' = "reply"
              ELSE /\ hpc' = on_exception(r.exc)
                   /\ frame' = [frame EXCEPT !.error = r.exc]
    /\ UNCHANGED <<sheetvars, config, started, sheets_handler, event, replies, pushes,
                   handled, restvars>>

\* the loop over matches: get_point_rule(keyword)['description'] on the rule
\* set as it is now, then record_action's read of the current total
record_read(o) ==
    /\ hpc = "rec_read"
    /\ LET match == frame.matches[frame.i]
           rule == get_point_rule(point_rules, match.keyword)
           r == get_total_points_result(ledger, event.user_id, o)
       IN  IF rule = <<>>
           THEN /\ hpc' = on_exception("TypeError")
                /\ frame' = [frame EXCEPT !.error = "TypeError"]
                /\ UNCHANGED calls
           ELSE IF r.exc = "none"
           THEN /\ frame' = [frame EXCEPT !.read_total = r.val,
                                          !.action_description = rule[1].description]
                /\ hpc' = "rec_append"
                /\ UNCHANGED calls
           ELSE /\ calls' = Append(calls, LedgerCall("record_action", match.points, r, <<>>))
                /\ hpc' = on_exception(r.exc)
                /\ frame' = [frame EXCEPT !.error = r.exc,
                                          !.action_description = rule[1].description]
    /\ UNCHANGED <<sheetvars, config, started, sheets_handler, event, replies, pushes,
                   handled, restvars>>

\* the loop over matches, record_action's append and the tally of the match
record_append(o) ==
    /\ hpc = "rec_append"
    /\ LET match == frame.matches[frame.i]
           row == row_data(event.user_id, frame.action_description, match.points,
                           frame.read_total)
           next == IF frame.i < Len(frame.matches) THEN "rec_read" ELSE "total"
       IN  CASE o = "ok" ->
                 /\ ledger' = append_row(ledger, row)
                 /\ written' = Append(written, row)
                 /\ awarded' = [awarded EXCEPT ![event.user_id] = @ + match.points]
                 /\ calls' = Append(calls,
                        LedgerCall("record_action", match.points, Returned(TRUE), row))
                 /\ frame' = [frame EXCEPT
                        !.i = @ + 1,
                        !.total_points_earned = @ + match.points,
                        !.recorded_actions = Append(@, frame.action_description)]
                 /\ hpc' = next
             [] o = "HttpError" ->
                 /\ calls' = Append(calls,
                        LedgerCall("record_action", match.points, Returned(FALSE), <<>>))
                 /\ frame' = [frame EXCEPT !.i = @ + 1]
                 /\ hpc' = next
                 /\ UNCHANGED <<ledger, written, awarded>>
             [] OTHER ->
                 /\ calls' = Append(calls,
                        LedgerCall("record_action", match.points, Raised(o), <<>>))
                 /\ hpc' = on_exception(o)
                 /\ frame' = [frame EXCEPT !.error = o]
                 /\ UNCHANGED <<ledger, written, awarded>>
    /\ UNCHANGED <<pc, call, local, io, done, ledger0>>
    /\ UNCHANGED <<config, started, sheets_handler, event, replies, pushes, handled,
                   restvars>>

\* current_total = sheets_handler.get_total_points(user_id) after the loop,
\* and the reply text
read_current_total(o) ==
    /\ hpc = "total"
    /\ LET r == get_total_points_result(ledger, event.user_id, o)
       IN  /\ calls' = Append(calls, LedgerCall("get_total_points", 0, r, <<>>))
           /\ IF r.exc = "none"
              THEN /\ frame' = [frame EXCEPT
                          !.current_total = r.val,
                          !.response_message = record_response(frame.total_points_earned)]
                   /\ hpc' = "reply"
              ELSE /\ hpc' = on_exception(r.exc)
                   /\ frame' = [frame EXCEPT !.error = r.exc]
    /\ UNCHANGED <<sheetvars, config, started, sheets_handler, event, replies, pushes,
                   handled, restvars>>

\* line_bot_api.reply_message of the path taken; on the record path the
\* milestone check follows
reply_message(o) ==
    /\ hpc = "reply"
    /\ replies' = Append(replies, [text |-> frame.response_message, outcome |-> o])
    /\ frame' = IF o # "ok" THEN [frame EXCEPT !.error = o] ELSE frame
    /\ hpc' = IF o # "ok" THEN on_exception(o)
              ELSE IF /\ frame.response_message \in {"recorded", "record_failed"}
                      /\ select_celebration(
                             frame.current_total - frame.total_points_earned,
                             frame.current_total) # {}
                   THEN "push"
                   ELSE "idle"
    /\ UNCHANGED <<sheetvars, config, started, sheets_handler, event, pushes,
                   calls, handled, restvars>>

\* line_bot_api.push_message of the celebration message inside its own try
push_message(celebration_message, o) ==
    /\ hpc = "push"
    /\ celebration_message \in
           select_celebration(frame.current_total - frame.total_points_earned,
                              frame.current_total)
    /\ pushes' = Append(pushes, [to |-> event.user_id, text |-> celebration_message,
                                 outcome |-> o])
    /\ hpc' = after_push(o)
    /\ UNCHANGED <<sheetvars, config, started, sheets_handler, event, frame, replies,
                   calls, handled, restvars>>

\* the outer except: the error reply, whose own failure is passed over
reply_error(o) ==
    /\ hpc = "except"
    /\ replies' = Append(replies, [text |-> "error", outcome |-> o])
    /\ hpc' = "idle"
    /\ UNCHANGED <<sheetvars, config, started, sheets_handler, event, frame, pushes,
                   calls, handled, restvars>>

\* the steps of an event being handled
HandlerStep ==
    \/ \E o \in Outcomes : handle_point(o)
    \/ \E o \in Outcomes : handle_history(o)
    \/ \E o \in Outcomes : record_read(o)
    \/ \E o \in Outcomes : record_append(o)
    \/ \E o \in Outcomes : read_current_total(o)
    \/ \E o \in LineOutcomes : reply_message(o)
    \/ \E m \in UNION {CELEBRATION_MESSAGES[pt] : pt \in DOMAIN CELEBRATION_MESSAGES},
          o \in LineOutcomes : push_message(m, o)
    \/ \E o \in LineOutcomes : reply_error(o)

NextBot ==
    \/ \E o_ctor \in CtorOutcomes, o_read \in Outcomes, o_write \in Outcomes,
          o_test \in Outcomes :
           initialize_sheets_handler(o_ctor, o_read, o_write, o_test)
    \/ \E user_id \in Users, text \in BotTexts : handle_message(user_id, text)
    \/ HandlerStep

SpecBot == InitBot /\ [][NextBot]_vars

SpecBotAdded == InitBotAdded /\ [][NextBot]_vars

\* a handler that was started runs on: every API call returns or raises
SpecBotLive == InitBot /\ [][NextBot]_vars /\ WF_vars(HandlerStep)

\* the milestone check applied to two totals: no message
select_nothing ==
    /\ selected.message = "pending"
    /\ select_celebration(selected.previous_total, selected.current_total) = {}
    /\ selected' = [selected EXCEPT !.message = "none"]
    /\ UNCHANGED <<sheetvars, botvars, point_rules, applied, init_result, peer>>

\* the milestone check applied to two totals: random.choice of a message
select_message(celebration_message) ==
    /\ selected.message = "pending"
    /\ celebration_message \in
           select_celebration(selected.previous_total, selected.current_total)
    /\ selected' = [selected EXCEPT !.message = celebration_message]
    /\ UNCHANGED <<sheetvars, botvars, point_rules, applied, init_result, peer>>

NextCelebrate ==
    \/ select_nothing
    \/ \E m \in UNION {CELEBRATION_MESSAGES[pt] : pt \in DOMAIN CELEBRATION_MESSAGES} :
           select_message(m)

SpecCelebrate == InitCelebrate /\ [][NextCelebrate]_vars

----------------------------------------------------------------------------
(* Two handle_message at the same time.  The WSGI server runs the handler *)
(* of each request in a thread of its own; the second one is taken on its  *)
(* record path, for a text with one keyword, every API call of it          *)
(* succeeding.                                                             *)

\* the sheets of a user who is three and two points below a boundary
PeerLedgers ==
    { <<headers, <<"u1", "t0", "bonus", "97", "97">>>>,
      <<headers, <<"u1", "t0", "bonus", "98", "98">>>> }

\* the application after a startup that succeeded
InitPeer ==
    /\ ledger \in PeerLedgers
    /\ SheetIdle
    /\ config = [spreadsheet_id |-> TRUE, credentials_file |-> TRUE]
    /\ started = TRUE
    /\ sheets_handler = "SheetsHandler"
    /\ hpc = "idle"
    /\ event = NoEvent
    /\ frame = NoFrame
    /\ replies = <<>>
    /\ pushes = <<>>
    /\ calls = <<>>
    /\ handled = 0
    /\ selected = NoSelection
    /\ point_rules = DEFAULT_POINT_RULES
    /\ applied = NoApplied
    /\ init_result = "True"
    /\ peer = NoPeer

\* the second handle_message up to the loop over its one match
peer_handle_message(user_id, rule) ==
    /\ started /\ sheets_handler # "None"
    /\ peer.hpc = "idle"
    /\ peer' = [NoPeer EXCEPT !.hpc = "rec_read", !.user_id = user_id,
                              !.points = rule.points,
                              !.action_description = rule.description]
    /\ UNCHANGED <<sheetvars, botvars, selected, point_rules, applied, init_result>>

\* its record_action: the read of the current total
peer_record_read ==
    /\ peer.hpc = "rec_read"
    /\ peer' = [peer EXCEPT !.hpc = "rec_append",
                            !.read_total = total_points(ledger, peer.user_id)]
    /\ UNCHANGED <<sheetvars, botvars, selected, point_rules, applied, init_result>>

\* its record_action: the append
peer_record_append ==
    /\ peer.hpc = "rec_append"
    /\ LET row == row_data(peer.user_id, peer.action_description, peer.points,
                           peer.read_total)
       IN  /\ ledger' = append_row(ledger, row)
           /\ written' = Append(written, row)
           /\ awarded' = [awarded EXCEPT ![peer.user_id] = @ + peer.points]
    /\ peer' = [peer EXCEPT !.hpc = "total"]
    /\ UNCHANGED <<pc, call, local, io, done, ledger0>>
    /\ UNCHANGED <<botvars, selected, point_rules, applied, init_result>>

\* its read of current_total after the loop
peer_read_current_total ==
    /\ peer.hpc = "total"
    /\ peer' = [peer EXCEPT !.hpc = "reply",
                            !.current_total = total_points(ledger, peer.user_id)]
    /\ UNCHANGED <<sheetvars, botvars, selected, point_rules, applied, init_result>>

\* its reply and its milestone check: pushed is the milestone it celebrates
peer_reply_message ==
    /\ peer.hpc = "reply"
    /\ peer' = [peer EXCEPT
                   !.hpc = "done",
                   !.pushed = IF select_celebration(peer.current_total - peer.points,
                                                    peer.current_total) # {}
                              THEN (peer.current_total \div 100) * 100 ELSE 0]
    /\ UNCHANGED <<sheetvars, botvars, selected, point_rules, applied, init_result>>

PeerStep ==
    \/ \E user_id \in Users, i \in DOMAIN point_rules :
           peer_handle_message(user_id, point_rules[i])
    \/ peer_record_read
    \/ peer_record_append
    \/ peer_read_current_total
    \/ peer_reply_message

\* one event and, at any point of its handling, before it or after it, the
\* second one
NextPeer ==
    \/ \E user_id \in Users, text \in BotTexts :
           handled = 0 /\ handle_message(user_id, text)
    \/ HandlerStep
    \/ PeerStep

SpecPeer == InitPeer /\ [][NextPeer]_vars

----------------------------------------------------------------------------
(* src/point_system.py: the calls of the rule set *)

\* the keywords, the values and the texts the rule set is called with on its
\* own: a keyword inside another, a letter in both cases
RuleKeywords == { <<"a">>, <<"#", "a">> }

RuleValues ==
    { [points |-> 1, message |-> <<"+", "{points}">>, description |-> "d"],
      [points |-> 5, message |-> <<"{points}", "pt">>, description |-> ""] }

RuleTexts ==
    UNION {[1..n -> {"#", "a", "A"}] : n \in 1..MaxTextLen}

\* rule sets a PointSystem can hold
RuleSetSamples ==
    { <<>>,
      <<PointRule(<<"#", "a">>, 1, <<"+", "{points}">>, "d")>>,
      <<PointRule(<<"#", "a">>, 5, <<"{points}", "pt">>, ""),
        PointRule(<<"a">>, 1, <<"+", "{points}">>, "d")>> }

\* the rule set called on its own: no handler of main.py runs
InitRules ==
    /\ ledger = <<>>
    /\ SheetIdle
    /\ config = [spreadsheet_id |-> FALSE, credentials_file |-> FALSE]
    /\ BotIdle
    /\ selected = NoSelection
    /\ \E rules \in RuleSetSamples : RulesIdle(rules)

\* point_system.add_point_rule(keyword, points, message, description)
call_add_point_rule(keyword, points, message, description) ==
    /\ applied.n < MaxRuleOps
    /\ point_rules' = add_point_rule(point_rules, keyword, points, message, description)
    /\ applied' = [NoApplied EXCEPT
                      !.n = applied.n + 1, !.op = "add_point_rule",
                      !.keyword = keyword,
                      !.rule = PointRule(keyword, points, message, description),
                      !.before = point_rules]
    /\ UNCHANGED <<sheetvars, botvars, selected, init_result, peer>>

\* point_system.remove_point_rule(keyword)
call_remove_point_rule(keyword) ==
    /\ applied.n < MaxRuleOps
    /\ point_rules' = remove_point_rule(point_rules, keyword).rules
    /\ applied' = [NoApplied EXCEPT
                      !.n = applied.n + 1, !.op = "remove_point_rule",
                      !.keyword = keyword, !.before = point_rules,
                      !.ret = remove_point_rule(point_rules, keyword).ret]
    /\ UNCHANGED <<sheetvars, botvars, selected, init_result, peer>>

\* point_system.get_point_rule(keyword)
call_get_point_rule(keyword) ==
    /\ applied' = [NoApplied EXCEPT
                      !.n = applied.n, !.op = "get_point_rule",
                      !.keyword = keyword, !.before = point_rules,
                      !.ret = get_point_rule(point_rules, keyword)]
    /\ UNCHANGED <<sheetvars, botvars, selected, point_rules, init_result, peer>>

\* point_system.parse_message(message)
call_parse_message(message) ==
    /\ applied' = [NoApplied EXCEPT
                      !.n = applied.n, !.op = "parse_message",
                      !.text = message, !.before = point_rules,
                      !.ret = parse_message(point_rules, message)]
    /\ UNCHANGED <<sheetvars, botvars, selected, point_rules, init_result, peer>>

NextRules ==
    \/ \E keyword \in RuleKeywords, v \in RuleValues :
           call_add_point_rule(keyword, v.points, v.message, v.description)
    \/ \E keyword \in RuleKeywords : call_remove_point_rule(keyword)
    \/ \E keyword \in RuleKeywords : call_get_point_rule(keyword)
    \/ \E message \in RuleTexts : call_parse_message(message)

SpecRules == InitRules /\ [][NextRules]_vars

\* the rules added while the application runs: a keyword that is inside a
\* command literal, for points add_point_rule takes as they are given
BotRuleKeywords == { <<"p", "o", "i", "n", "t">>, <<"#", "shuku", "dai">> }

BotRuleValues ==
    { [points |-> 0, message |-> <<"+", "{points}">>, description |-> "zero"],
      [points |-> 5, message |-> <<"+", "{points}">>, description |-> "five"] }

\* the application with its rule set changed while it runs, between the
\* events and between the steps of an event being handled
NextBotRules ==
    \/ NextBot
    \/ \E keyword \in BotRuleKeywords, v \in BotRuleValues :
           /\ started /\ applied.n < MaxBotRuleOps
           /\ call_add_point_rule(keyword, v.points, v.message, v.description)
    \/ \E keyword \in BotRuleKeywords :
           /\ started /\ applied.n < MaxBotRuleOps
           /\ call_remove_point_rule(keyword)

\* the application started with its configuration set and the default rules
InitBotRules ==
    /\ ledger \in BotLedgers
    /\ SheetIdle
    /\ config = [spreadsheet_id |-> TRUE, credentials_file |-> TRUE]
    /\ BotIdle
    /\ selected = NoSelection
    /\ RulesIdle(DEFAULT_POINT_RULES)

SpecBotRules == InitBotRules /\ [][NextBotRules]_vars

----------------------------------------------------------------------------
(* Operators the properties are stated with *)

Min(a, b) == IF a < b THEN a ELSE b

\* the integer a cell stands for, 0 when it is no integer
CellValue(cell) == IF IsIntCell(cell) THEN int(cell) ELSE 0

\* the data rows (below row 1) of a sheet
DataRows(values) == IF values = <<>> THEN <<>> ELSE Tail(values)

\* the sheet with some of its data rows only
Keeping(values, keep(_)) ==
    IF values = <<>> THEN <<>> ELSE <<values[1]>> \o SelectSeq(Tail(values), keep)

\* a row of the five-column layout that belongs to another user
IsOthersRow(row, user_id) == Len(row) >= 5 /\ row[1] # user_id

\* the points a data row carries for user_id, read by its layout: column 2
\* (0-based) of a four-column row, column 3 of a five-column row of user_id
LayoutPoints(row, user_id) ==
    IF Len(row) = 4 THEN CellValue(row[3])
    ELSE IF Len(row) >= 5 /\ row[1] = user_id THEN CellValue(row[4])
    ELSE 0

RECURSIVE LayoutSum(_, _)
LayoutSum(rows, user_id) ==
    IF rows = <<>> THEN 0
    ELSE LayoutPoints(Head(rows), user_id) + LayoutSum(Tail(rows), user_id)

\* a data row with fewer than 4 cells or a non-integer points cell
BadPoints(row) ==
    \/ Len(row) < 4
    \/ Len(row) = 4 /\ ~IsIntCell(row[3])
    \/ Len(row) >= 5 /\ ~IsIntCell(row[4])

\* a data row with fewer than 4 cells or a non-integer points or total cell
Malformed(row) ==
    \/ BadPoints(row)
    \/ Len(row) = 4 /\ ~IsIntCell(row[4])
    \/ Len(row) >= 5 /\ ~IsIntCell(row[5])

\* s is t with some elements left out
RECURSIVE IsSubsequence(_, _)
IsSubsequence(s, t) ==
    IF s = <<>> THEN TRUE
    ELSE IF t = <<>> THEN FALSE
    ELSE IF Head(s) = Head(t) THEN IsSubsequence(Tail(s), Tail(t))
    ELSE IsSubsequence(s, Tail(t))

SameResult(a, b) == a.exc = b.exc /\ (a.exc = "none" => a.val = b.val)

\* the call that completed last is op, and its API call(s) all succeeded
DoneOk(op) ==
    /\ done.call.op = op
    /\ \A i \in 1..Len(done.io) : done.io[i] = "ok"

----------------------------------------------------------------------------
(* C1: a get_total_points(user_id) whose read succeeds returns the exact   *)
(* sum of the points of the user's recorded actions: the points the sheet  *)
(* held for the user at the start (legacy rows included) plus the points   *)
(* of every record_action for the user that returned True since, under any *)
(* interleaving of the reads and appends and whatever the total column     *)
(* holds.                                                                  *)
C1_TotalIsExactSum ==
    DoneOk("get_total_points") =>
        /\ done.ret.exc = "none"
        /\ done.ret.val = LayoutSum(DataRows(ledger0), done.call.user_id)
                          + awarded[done.call.user_id]

(* C2: get_total_points(user_id) counts a five-column row only when its    *)
(* column 0 is user_id: the result is the one the sheet gives without the  *)
(* five-column rows of other users, whatever their cells hold.             *)
C2_OtherUsersRowsIgnored ==
    DoneOk("get_total_points") =>
        LET u == done.call.user_id
            NotOthers(row) == ~IsOthersRow(row, u)
        IN  /\ done.ret.exc = "none"
            /\ done.ret.val = total_points(Keeping(ledger, NotOthers), u)

(* C3: on a sheet mixing four-column and five-column rows,                 *)
(* get_total_points(user_id) is the sum of column 2 over the four-column   *)
(* data rows plus the sum of column 3 over the five-column data rows whose *)
(* column 0 is user_id.                                                    *)
C3_MixedLayoutSum ==
    (/\ DoneOk("get_total_points")
     /\ \E i \in 2..Len(ledger) : Len(ledger[i]) = 4
     /\ \E i \in 2..Len(ledger) : Len(ledger[i]) = 5) =>
        /\ done.ret.exc = "none"
        /\ done.ret.val = LayoutSum(DataRows(ledger), done.call.user_id)

(* C4: record_action returns False whenever one of its API calls (the read *)
(* of the current total, the append) failed; it returns True only when its *)
(* row was appended; a call that returns False leaves the sheet as it was. *)
(* The failures taken here are the HttpError ones, which the handlers      *)
(* catch; C6 is about the others.                                          *)
C4_FalseOnAnyFailure ==
    [][done'.call.op = "record_action" =>
          /\ (/\ \E i \in 1..Len(done'.io) : done'.io[i] = "HttpError"
              /\ \A i \in 1..Len(done'.io) : done'.io[i] # "OtherError") =>
                 (done'.ret.exc = "none" /\ done'.ret.val = FALSE)
          /\ (done'.ret.exc = "none" /\ done'.ret.val = TRUE) =>
                 /\ ledger' # <<>>
                 /\ ledger'[Len(ledger')][1] = done'.call.user_id
                 /\ ledger'[Len(ledger')][3] = done'.call.action
                 /\ written' # <<>>
          /\ (done'.ret.exc = "none" /\ done'.ret.val = FALSE) =>
                 ledger' = ledger
      ]_vars

(* C5: a record_action that returns True has appended exactly one row, at  *)
(* the end of the sheet, in the layout [user_id, timestamp, action,        *)
(* points, new_total] with new_total = the total it read through           *)
(* get_total_points + points, and every row that was there is unchanged    *)
(* and in place.                                                           *)
C5_AppendsOneRow ==
    [][\A p \in Procs :
          /\ (pc[p] = "idle" /\ pc'[p] = "rec_append") =>
                 local'[p] = get_total_points_result(ledger, call'[p].user_id,
                                                     io'[p][1]).val
          /\ (pc[p] = "rec_append" /\ pc'[p] = "idle"
                 /\ done'.ret.exc = "none" /\ done'.ret.val = TRUE) =>
                 /\ Len(ledger') = Len(ledger) + 1
                 /\ SubSeq(ledger', 1, Len(ledger)) = ledger
                 /\ LET row == ledger'[Len(ledger')]
                    IN  /\ Len(row) = 5
                        /\ row[1] = call[p].user_id
                        /\ row[2] = timestamp
                        /\ row[3] = call[p].action
                        /\ IsIntCell(row[4]) /\ int(row[4]) = call[p].points
                        /\ IsIntCell(row[5])
                        /\ int(row[5]) = local[p] + call[p].points
      ]_vars

\* a record_action returned True after reading a total above 0 from a sheet
\* that already held a header and a data row
C5_Witness ==
    /\ done.call.op = "record_action"
    /\ done.ret.exc = "none" /\ done.ret.val = TRUE
    /\ Len(ledger) >= 3
    /\ int(ledger[Len(ledger)][5]) > done.call.points

(* C6: a ledger operation whose API call fails (server error, sheet        *)
(* unreachable, expired credentials, quota, timeout) returns its safe      *)
(* default - 0, False, the empty list, False - and raises nothing.         *)
C6_SafeDefaultOnFailure ==
    (done.call.op # "none" /\ done.io[Len(done.io)] # "ok") =>
        /\ done.ret.exc = "none"
        /\ CASE done.call.op = "get_total_points" -> done.ret.val = 0
             [] done.call.op = "get_user_history" -> done.ret.val = <<>>
             [] OTHER -> done.ret.val = FALSE

(* C7: get_user_history(user_id, limit) is built from the five-column rows *)
(* of user_id and the four-column rows only: a five-column row of another  *)
(* user is neither in the result nor changes the outcome of the call.      *)
(* Stated for the sheets without malformed rows, which C9 is about.        *)
C7_HistoryIgnoresOtherUsers ==
    (/\ DoneOk("get_user_history")
     /\ \A i \in 2..Len(ledger) : ~Malformed(ledger[i])) =>
        LET u == done.call.user_id
            NotOthers(row) == ~IsOthersRow(row, u)
        IN  SameResult(done.ret,
                       user_history(Keeping(ledger, NotOthers), u, done.call.limit))

(* C8: get_user_history(user_id, limit) returns the last limit entries of  *)
(* the user's filtered rows, in sheet order: min(limit, n) entries for     *)
(* every limit >= 0, none for limit = 0.                                   *)
C8_HistoryLastLimit ==
    (DoneOk("get_user_history") /\ done.ret.exc = "none") =>
        LET h == history_list(DataRows(ledger), done.call.user_id)
            k == Min(done.call.limit, Len(h))
        IN  /\ Len(done.ret.val) = k
            /\ done.ret.val = SubSeq(h, Len(h) - k + 1, Len(h))

(* C9: in both reads a malformed data row (fewer than 4 cells, non-integer *)
(* points or total cell) is skipped on its own: the read returns what the  *)
(* sheet without its malformed rows gives, and raises nothing more.        *)
C9_MalformedRowsSkipped ==
    LET u == done.call.user_id
        GoodPoints(row) == ~BadPoints(row)
        WellFormed(row) == ~Malformed(row)
    IN  /\ DoneOk("get_total_points") =>
               /\ done.ret.exc = "none"
               /\ done.ret.val = total_points(Keeping(ledger, GoodPoints), u)
        /\ DoneOk("get_user_history") =>
               SameResult(done.ret,
                          user_history(Keeping(ledger, WellFormed), u, done.call.limit))

(* C10: a row appended by a record_action that returned True is never      *)
(* altered or removed: the rows so appended are all in the sheet, with     *)
(* their cells, in the order of their appends, whatever calls follow.      *)
C10_AppendedRowsStay == IsSubsequence(written, ledger)

(* C11: whenever the sheet is non-empty its row 1 is a header row, and no  *)
(* row written by record_action is row 1, so that values[1:] of the reads  *)
(* never drops a recorded action; in every order of initialize_sheet       *)
(* (succeeding or failing) and record_action calls.                        *)
C11_RowOneIsHeader ==
    ledger # <<>> =>
        /\ ledger[1] \in {headers, legacy_headers}
        /\ \A k \in 1..Len(written) : ledger[1] # written[k]

\* the step is process p's values().update of initialize_sheet, and it succeeded
InitWrote(p) ==
    /\ pc[p] = "init_write" /\ pc'[p] = "idle"
    /\ done'.ret.exc = "none" /\ done'.ret.val = TRUE

\* the step is the append of some record_action
AppendStep == \E p \in Procs : pc[p] = "rec_append" /\ pc'[p] = "idle"

(* C12: initialize_sheet on a sheet with no rows writes the five-column    *)
(* header and nothing else, and is idempotent: on the resulting sheet no   *)
(* step of a second or further initialize_sheet call (one that overlapped  *)
(* the first included) changes a row, and no write is issued by a call     *)
(* that read it.                                                           *)
C12_InitializeEmptyIdempotent ==
    [][/\ \A p \in Procs :
             /\ (InitWrote(p) /\ ledger = <<>>) => ledger' = <<headers>>
             /\ (pc[p] = "idle" /\ pc'[p] = "init_write") => ledger # <<headers>>
       /\ (ledger = <<headers>> /\ ~AppendStep) => ledger' = ledger
      ]_vars

\* started on an empty sheet, the header was written, and an initialize_sheet
\* call that came after read it and returned True without writing
C12_Witness ==
    /\ ledger0 = <<>>
    /\ ledger = <<headers>>
    /\ done.call.op = "initialize_sheet"
    /\ done.io = <<"ok">>
    /\ done.ret.exc = "none" /\ done.ret.val = TRUE

(* C13: initialize_sheet on a non-empty sheet whose row 1 has fewer than 5 *)
(* cells or a first cell other than the user-id label replaces row 1 with  *)
(* the five-column header and leaves every row below row 1 as it was; when *)
(* row 1 is the header already it issues no write and changes nothing.     *)
C13_HeaderReplacedRowsKept ==
    [][\A p \in Procs :
          /\ (InitWrote(p) /\ ledger # <<>>) =>
                 /\ Len(ledger') = Len(ledger)
                 /\ ledger'[1] = headers
                 /\ \A i \in 2..Len(ledger) : ledger'[i] = ledger[i]
          /\ (pc[p] = "idle" /\ pc'[p] = "init_write" /\ ledger # <<>>) =>
                 (Len(ledger[1]) < 5 \/ ledger[1][1] # headers[1])
          /\ (/\ pc' = pc /\ done'.call.op = "initialize_sheet" /\ done'.io = <<"ok">>
              /\ ledger # <<>>) =>
                 /\ Len(ledger[1]) >= 5 /\ ledger[1][1] = headers[1]
                 /\ ledger' = ledger
      ]_vars

\* a sheet that started with the legacy header and a data row had its row 1
\* replaced by a completed initialize_sheet, the data row still in row 2
C13_Witness ==
    /\ ledger0 # <<>> /\ ledger0[1] = legacy_headers
    /\ done.call.op = "initialize_sheet"
    /\ done.io = <<"ok", "ok">>
    /\ done.ret.exc = "none" /\ done.ret.val = TRUE
    /\ Len(ledger) >= 2
    /\ ledger[1] = headers
    /\ ledger[2] = ledger0[2]

----------------------------------------------------------------------------
(* Operators the properties of handle_message are stated with *)

\* an event was received and its handling has ended
EventHandled == hpc = "idle" /\ handled > 0

\* the command the text of the event is a literal of, and the rules whose
\* keyword is in it
EventCommand == command_of(event.text)
EventMatches == parse_message(point_rules, event.text)

\* the record_action calls of the event
RecordCalls ==
    LET IsRecord(c) == c.op = "record_action"
    IN  SelectSeq(calls, IsRecord)

ReturnedTrue(c) == c.op = "record_action" /\ c.ret.exc = "none" /\ c.ret.val = TRUE

\* the points of the record_action calls of s that returned True, summed
RECURSIVE PointsRecorded(_)
PointsRecorded(s) ==
    IF s = <<>> THEN 0
    ELSE (IF ReturnedTrue(Head(s)) THEN Head(s).points ELSE 0) + PointsRecorded(Tail(s))

\* the points cells of the rows the calls of s appended, summed
RECURSIVE PointsAppended(_)
PointsAppended(s) ==
    IF s = <<>> THEN 0
    ELSE (IF Head(s).row # <<>> THEN int(Head(s).row[4]) ELSE 0) + PointsAppended(Tail(s))

\* a ledger call of the event raised
CallRaised == \E i \in 1..Len(calls) : calls[i].ret.exc # "none"

\* the reply text of the path the event takes when nothing raises
PathText ==
    CASE EventCommand = "help" -> {get_help_message(point_rules)}
      [] EventCommand = "point" ->
             IF sheets_handler = "None" THEN {"unavailable"} ELSE {"total"}
      [] EventCommand = "history" ->
             IF sheets_handler = "None" THEN {"unavailable"} ELSE {"history", "no_history"}
      [] OTHER ->
             IF EventMatches = <<>> THEN {no_match_response(point_rules)}
             ELSE IF sheets_handler = "None" THEN {"not_configured"}
             ELSE IF \E i \in 1..Len(calls) : ReturnedTrue(calls[i]) /\ calls[i].row # <<>>
                  THEN {"recorded"}
                  ELSE {"record_failed"}

(* C14: the milestone selection, with prevBoundary = floor(previous /100)  *)
(* and currBoundary = floor(new / 100), gives a message if and only if     *)
(* currBoundary > prevBoundary and currBoundary >= 1, and the message is   *)
(* one of the set of currBoundary * 100 and of no other set: (95, 101)     *)
(* gives the 100 set, (100, 100) nothing, (95, 205) the 200 set.           *)
C14_MilestoneSelection ==
    selected.message # "pending" =>
        LET prevBoundary == selected.previous_total \div 100
            currBoundary == selected.current_total \div 100
            crossed == currBoundary > prevBoundary /\ currBoundary >= 1
        IN  /\ (selected.message # "none") <=> crossed
            /\ (crossed /\ currBoundary * 100 \in DOMAIN CELEBRATION_MESSAGES) =>
                   \A pt \in DOMAIN CELEBRATION_MESSAGES :
                       (selected.message \in CELEBRATION_MESSAGES[pt])
                           <=> (pt = currBoundary * 100)

\* (95, 205): two boundaries crossed at once, a message of the 200 set selected
C14_Witness ==
    /\ selected.previous_total = 95
    /\ selected.current_total = 205
    /\ selected.message \in CELEBRATION_MESSAGES[200]

(* C15: when the boundary crossed, currBoundary * 100, is above the        *)
(* highest milestone of the table (500), the message is one of the 500     *)
(* set: (550, 605) and every boundary 600, 700, ...                        *)
C15_FallbackAboveHighest ==
    LET prevBoundary == selected.previous_total \div 100
        currBoundary == selected.current_total \div 100
    IN  (/\ selected.message # "pending"
         /\ currBoundary > prevBoundary
         /\ currBoundary * 100 > 500) =>
            selected.message \in CELEBRATION_MESSAGES[500]

\* (550, 605): boundary 600 crossed, a message of the 500 set selected
C15_Witness ==
    /\ selected.previous_total = 550
    /\ selected.current_total = 605
    /\ selected.message \in CELEBRATION_MESSAGES[500]

(* C16: for a message matching several keywords every match gets its own  *)
(* record_action call, a failed call not stopping the later ones, and the  *)
(* points-earned tally is the sum of the points of the matches whose       *)
(* record_action returned True, which is the sum of the points cells of    *)
(* the rows the message appended.                                          *)
C16_TallyOfRecorded ==
    (EventHandled /\ frame.matches # <<>> /\ sheets_handler # "None") =>
        /\ Len(RecordCalls) = Len(frame.matches)
        /\ frame.total_points_earned = PointsRecorded(RecordCalls)
        /\ frame.total_points_earned = PointsAppended(RecordCalls)

(* C17: the milestone push comes after the reply and is fire-and-forget:   *)
(* a push is attempted only once the reply of the event was delivered, at  *)
(* most once (no retry), it changes no row of the sheet, and a failing     *)
(* push causes no second (error) reply: the handling ends with it.         *)
C17_PushFireAndForget ==
    [][pushes' # <<>> =>
          /\ Len(pushes') = 1
          /\ Len(replies') = 1
          /\ replies'[1].outcome = "ok"
          /\ replies'[1].text # "error"
          /\ pushes' # pushes =>
                 /\ replies' = replies
                 /\ ledger' = ledger
                 /\ hpc' = "idle"
      ]_vars

\* a push failed after the rows of the message were written and its reply
\* delivered; the handling has ended and the rows are in the sheet
C17_Witness ==
    /\ EventHandled
    /\ pushes # <<>> /\ pushes[1].outcome # "ok"
    /\ \E i \in 1..Len(calls) :
           /\ calls[i].row # <<>>
           /\ \E k \in 1..Len(ledger) : ledger[k] = calls[i].row

(* C18: an inbound event causes at most one push, and only on a milestone  *)
(* crossing of a message some action of which was recorded: none on the    *)
(* help, points, history, no-match and handler-missing paths, none when no *)
(* record_action of the message returned True; the push goes to the user   *)
(* of the event.                                                           *)
C18_AtMostOnePush ==
    /\ Len(pushes) <= 1
    /\ pushes # <<>> =>
           /\ EventCommand = "none"
           /\ frame.matches # <<>>
           /\ sheets_handler # "None"
           /\ \E i \in 1..Len(calls) :
                  calls[i].op = "record_action" /\ ReturnedTrue(calls[i])
           /\ frame.current_total \div 100
                  > (frame.current_total - frame.total_points_earned) \div 100
           /\ pushes[1].to = event.user_id

\* a message with two matches took the user's total over 100 and the push
\* was delivered
C18_Witness ==
    /\ EventHandled
    /\ Len(frame.matches) = 2
    /\ frame.current_total >= 100
    /\ Len(pushes) = 1 /\ pushes[1].outcome = "ok"

(* C19: every inbound text event gets a reply attempt, on every path: the  *)
(* handling of an event always ends, and when it has ended at least one    *)
(* reply_message was attempted; the first is the reply of the path (the    *)
(* error text when a ledger call raised), a second one is attempted only   *)
(* when the first was refused and is the error text, so that a transport   *)
(* that accepts replies is given exactly one.                              *)
C19_AlwaysAReply ==
    /\ (hpc # "idle") ~> (EventHandled /\ replies # <<>>)
    /\ [](EventHandled =>
            /\ replies # <<>>
            /\ replies[1].text \in (IF CallRaised THEN {"error"} ELSE PathText)
            /\ (replies[1].outcome = "ok" \/ CallRaised) => Len(replies) = 1
            /\ (replies[1].outcome # "ok" /\ ~CallRaised) =>
                   /\ Len(replies) = 2
                   /\ replies[2].text = "error")

\* an exception escaped a ledger call of the event, and the error reply was
\* delivered
C19_Witness ==
    /\ EventHandled
    /\ calls # <<>> /\ calls[Len(calls)].ret.exc = "OtherError"
    /\ replies = <<[text |-> "error", outcome |-> "ok"]>>

(* C20: when no spreadsheet id is configured no SheetsHandler is           *)
(* constructed, and then the points command, the history command and a     *)
(* message matching a keyword are answered 'not available' with no ledger  *)
(* call made and the sheet untouched, while the help command and the       *)
(* no-match reply are answered from the rule table.                        *)
C20_NoLedgerConfigured ==
    ~config.spreadsheet_id =>
        /\ sheets_handler = "None"
        /\ calls = <<>>
        /\ ledger = ledger0
        /\ EventHandled =>
               /\ replies # <<>>
               /\ replies[1].text =
                      CASE EventCommand = "help" -> get_help_message(point_rules)
                        [] EventCommand \in {"point", "history"} -> "unavailable"
                        [] EventCommand = "none" /\ EventMatches = <<>> ->
                               no_match_response(point_rules)
                        [] OTHER -> "not_configured"

\* without a spreadsheet id, a message matching a keyword was answered
\* 'not available'
C20_Witness ==
    /\ ~config.spreadsheet_id
    /\ EventHandled
    /\ EventMatches # <<>>
    /\ replies = <<[text |-> "not_configured", outcome |-> "ok"]>>

----------------------------------------------------------------------------
(* Operators the properties of the rule set are stated with *)

\* keyword occurs in text: some place of text where every character of
\* keyword is found in turn
Occurs(keyword, text) ==
    \E at \in 1..Len(text) :
        \A k \in 1..Len(keyword) :
            at + k - 1 <= Len(text) /\ text[at + k - 1] = keyword[k]

\* the rules of a rule set, and those under a keyword
RulesOf(rules) == {rules[i] : i \in DOMAIN rules}
RulesUnder(rules, keyword) == {r \in RulesOf(rules) : r.keyword = keyword}

\* the place of the rule of a keyword in a rule set
PlaceOf(rules, keyword) == CHOOSE i \in DOMAIN rules : rules[i].keyword = keyword

(* C21: parse_message gives exactly one match per rule whose keyword is a  *)
(* literal substring of the text: found inside a longer text, in the case  *)
(* it is written in, once however often it occurs; the matches come in    *)
(* the order of the rule set and carry the keyword and the points of      *)
(* their rule; a keyword and a keyword inside it both match, two keywords  *)
(* give two matches.                                                       *)
C21_SubstringMatches ==
    applied.op = "parse_message" =>
        LET rules == applied.before
            matches == applied.ret
        IN  /\ \A i \in DOMAIN rules :
                   Cardinality({j \in DOMAIN matches :
                                   matches[j].keyword = rules[i].keyword})
                       = IF Occurs(rules[i].keyword, applied.text) THEN 1 ELSE 0
            /\ \A j \in DOMAIN matches :
                   /\ matches[j].keyword \in Keywords(rules)
                   /\ matches[j].points = rules[PlaceOf(rules, matches[j].keyword)].points
            /\ \A j1, j2 \in DOMAIN matches :
                   j1 < j2 => PlaceOf(rules, matches[j1].keyword)
                                  < PlaceOf(rules, matches[j2].keyword)

\* the text "a#a" parsed with the rules of "#a" and of "a": "a" is in it
\* twice and inside "#a", and there are the two matches, that of "#a" first
C21_Witness ==
    /\ applied.op = "parse_message"
    /\ applied.text = <<"a", "#", "a">>
    /\ Len(applied.before) = 2
    /\ applied.before[1].keyword = <<"#", "a">>
    /\ applied.before[2].keyword = <<"a">>
    /\ Len(applied.ret) = 2
    /\ applied.ret[1].keyword = <<"#", "a">>

(* C22: add_point_rule and remove_point_rule can be called at any point   *)
(* of the handling of a message, also between parse_message and the       *)
(* recording of each match: the rule set stays a rule set (one rule per   *)
(* keyword), and the handling does not fail: the only exceptions that end  *)
(* it are those a call of the ledger or of the messaging API raised.       *)
C22_RuleMutationSafe ==
    /\ \A i, j \in DOMAIN point_rules :
           point_rules[i].keyword = point_rules[j].keyword => i = j
    /\ frame.error # "none" =>
           \/ CallRaised
           \/ \E i \in 1..Len(replies) : replies[i].outcome # "ok"

\* the text of the event is no command and no keyword of the rule set is
\* in it
NoMatchEvent == handled > 0 /\ EventCommand = "none" /\ EventMatches = <<>>

(* C23: for a text that is no command and holds no keyword, parse_message  *)
(* is called and gives the empty list, the reply is the no-match text      *)
(* followed by the help text of the rule set, and the ledger is neither    *)
(* read nor written, with a handler or without one.                        *)
C23_NoMatchReply ==
    /\ [](NoMatchEvent =>
            /\ frame.parsed /\ frame.matches = <<>>
            /\ calls = <<>>
            /\ replies # <<>> =>
                   replies[1].text = "no match//" \o get_help_message(point_rules)
            /\ EventHandled => replies # <<>>)
    /\ [][(NoMatchEvent /\ NoMatchEvent') => ledger' = ledger]_vars

\* a text without keyword was answered while a SheetsHandler was there and
\* the sheet held rows
C23_Witness ==
    /\ NoMatchEvent /\ EventHandled
    /\ sheets_handler # "None"
    /\ Len(ledger) = 2
    /\ Len(replies) = 1 /\ replies[1].outcome = "ok"
    /\ frame.parsed

(* C24: remove_point_rule(k) returns True exactly when a rule was under   *)
(* k; after it no rule is under k and every other rule is as it was (the   *)
(* rule set is unchanged when it returns False).  add_point_rule(k, ...)   *)
(* puts the given rule under k, in place of the one that was there if      *)
(* any, and leaves every other rule as it was.  add_point_rule(k, ...)     *)
(* followed by remove_point_rule(k) returns True and leaves the rule set   *)
(* the add started from, without k.                                        *)
C24_AddRemoveRules ==
    /\ [](applied.op = "remove_point_rule" =>
            /\ applied.ret = (RulesUnder(applied.before, applied.keyword) # {})
            /\ RulesUnder(point_rules, applied.keyword) = {}
            /\ RulesOf(point_rules)
                   = RulesOf(applied.before) \ RulesUnder(applied.before, applied.keyword)
            /\ applied.ret = FALSE => point_rules = applied.before)
    /\ [](applied.op = "add_point_rule" =>
            /\ RulesUnder(point_rules, applied.keyword) = {applied.rule}
            /\ RulesOf(point_rules) \ {applied.rule}
                   = RulesOf(applied.before) \ RulesUnder(applied.before, applied.keyword)
            /\ Len(point_rules) = Cardinality(Keywords(point_rules)))
    /\ [][(/\ applied.op = "add_point_rule"
           /\ applied'.op = "remove_point_rule"
           /\ applied'.keyword = applied.keyword)
          => /\ applied'.ret = TRUE
             /\ RulesOf(point_rules')
                    = RulesOf(applied.before) \ RulesUnder(applied.before, applied.keyword)
      ]_vars

\* a rule was put in place of the one under its keyword and then removed:
\* True was returned and the other rule is left
C24_Witness ==
    /\ applied.op = "remove_point_rule"
    /\ applied.n = 2
    /\ applied.ret = TRUE
    /\ applied.keyword = <<"a">>
    /\ Len(applied.before) = 2
    /\ applied.before[2].keyword = <<"a">>
    /\ applied.before[2].points = 5
    /\ Len(point_rules) = 1

\* the lowercased text of the event is one of the command literals
CommandEvent ==
    /\ handled > 0
    /\ lower(event.text) \in help_commands \cup point_commands \cup history_commands

(* C25: a text whose lowercased form is a command literal is handled as    *)
(* that command before any rule is looked at: parse_message is not called  *)
(* for it, no record_action is made, no points are earned, no push is      *)
(* sent and no row is written, also when a keyword of the rule set is      *)
(* inside the text; the only ledger call is the read of the command.       *)
C25_CommandsFirst ==
    /\ [](CommandEvent =>
            /\ ~frame.parsed /\ frame.matches = <<>>
            /\ frame.total_points_earned = 0
            /\ pushes = <<>>
            /\ Len(calls) <= 1
            /\ \A i \in 1..Len(calls) :
                   /\ calls[i].row = <<>>
                   /\ calls[i].op =
                          IF lower(event.text) \in point_commands
                          THEN "get_total_points" ELSE "get_user_history"
            /\ lower(event.text) \in help_commands => calls = <<>>
            /\ (replies # <<>> /\ ~CallRaised) => replies[1].text \in PathText)
    /\ [][(CommandEvent /\ CommandEvent') => ledger' = ledger]_vars

\* '#point' was answered with the total while the rule of keyword 'point'
\* was in the rule set
C25_Witness ==
    /\ CommandEvent /\ EventHandled
    /\ event.text = <<"#", "p", "o", "i", "n", "t">>
    /\ \E i \in DOMAIN point_rules : Occurs(point_rules[i].keyword, event.text)
    /\ replies = <<[text |-> "total", outcome |-> "ok"]>>

\* the points cells of the rows of a user in a sheet, summed
RECURSIVE UserPointsSum(_, _)
UserPointsSum(values, user_id) ==
    IF values = <<>> THEN 0
    ELSE (IF Len(Head(values)) >= 5 /\ Head(values)[1] = user_id
          THEN CellValue(Head(values)[4]) ELSE 0)
             + UserPointsSum(Tail(values), user_id)

(* C26: with the record_action calls made one at a time (one event is     *)
(* handled at a time, each call reads and appends before the next one      *)
(* starts), the total cell of every row a record_action appends is the sum *)
(* of the points cells of the rows of that user in the sheet, the new row  *)
(* included.                                                               *)
C26_RunningTotalSequential ==
    [][written' # written =>
          LET row == written'[Len(written')]
          IN  CellValue(row[5]) = UserPointsSum(ledger', row[1])
      ]_vars

\* the two handle_message, of the same user, have ended; the first one
\* recorded its matches and read the total of the sheet as it was
BothEnded ==
    /\ handled = 1 /\ hpc = "idle"
    /\ peer.hpc = "done"
    /\ event.user_id = peer.user_id
    /\ frame.total_points_earned > 0
    /\ replies # <<>> /\ replies[1].outcome = "ok"
    /\ frame.current_total \in
           { UserPointsSum(ledger, event.user_id),
             UserPointsSum(ledger, event.user_id) - peer.points }

\* how many times the two handlers celebrated the milestone pt
Celebrations(pt) ==
    Cardinality({i \in DOMAIN pushes : pushes[i].text \in CELEBRATION_MESSAGES[pt]})
        + (IF peer.pushed = pt THEN 1 ELSE 0)

(* C27: when two messages of one user are handled at the same time, every *)
(* hundred-point boundary the total of the user went over is celebrated   *)
(* exactly once, by one of the two handlers, and a boundary it did not go  *)
(* over is not celebrated.                                                 *)
C27_CelebratedOnce ==
    BothEnded =>
        \A pt \in DOMAIN CELEBRATION_MESSAGES :
            Celebrations(pt) =
                IF /\ UserPointsSum(ledger0, event.user_id) < pt
                   /\ pt <= UserPointsSum(ledger, event.user_id)
                THEN 1 ELSE 0

(* C28: whenever initialize_sheets_handler returns False (configuration   *)
(* missing, the constructor raising, initialize_sheet failing, the         *)
(* connection test failing) the global handler is None, so that the        *)
(* messages that follow are answered 'not available' and no record_action  *)
(* is made on a sheet whose initialization did not succeed.                *)
C28_HandlerUnsetOnFailure ==
    init_result = "False" =>
        /\ sheets_handler = "None"
        /\ RecordCalls = <<>>

(* C29: for a message with a match handled with a SheetsHandler, none of   *)
(* whose calls raised, the reply is the recording-failed text if and only  *)
(* if no record_action of the message returned True; when one returned     *)
(* True, whatever the points of its rule, the reply is the text listing    *)
(* the recorded actions.                                                   *)
C29_FailedIffNoneRecorded ==
    (/\ EventHandled
     /\ frame.matches # <<>>
     /\ sheets_handler # "None"
     /\ frame.error = "none") =>
        /\ replies # <<>>
        /\ replies[1].text \in {"recorded", "record_failed"}
        /\ (replies[1].text = "record_failed")
               <=> ~(\E i \in 1..Len(calls) : ReturnedTrue(calls[i]))

====
